---- MODULE Spec2Model ----
(***************************************************************************)
(* Analytics pipeline core of the Nigerian stock pipeline:                 *)
(*   app/pipelines/orchestrator.py   PipelineOrchestrator (staged run)     *)
(*   app/services/alerts/evaluator.py AlertEvaluator                       *)
(*   app/services/processors/validator.py, transformer.py                  *)
(*   app/repositories/*.py, app/config/database.py (sessions, stores)      *)
(*   app/utils/decorators.py          retry                                 *)
(*   app/services/indicators/calculator.py IndicatorCalculator             *)
(*                                                                         *)
(* One orchestrator object runs the pipeline repeatedly.  run() is modelled *)
(* as a sequence of steps, one per stage (the price loading stage takes    *)
(* one step per batch).  The stores (dim_stocks, fact_daily_prices,         *)
(* fact_technical_indicators, alert_history, fact_recommendations) are     *)
(* the committed contents of the database; uncommitted session work is     *)
(* local to a step, or kept in session_pending between batches.            *)
(* Every call to a collaborator (data source,                              *)
(* validator, transformer, repository, notifier) answers by its documented *)
(* contract or raises; the number of raised failures in one behaviour is   *)
(* bounded by MaxFaults.                                                   *)
(***************************************************************************)
EXTENDS Integers, Sequences, FiniteSets, TLC

\* ------------------------------------------------------------------ bounds
MaxRuns == 2        \* runs of the same orchestrator
MaxRows == 2        \* rows one fetch returns
MaxFaults == 1      \* collaborator failures in one behaviour
MaxDate == 2        \* trading days
BatchSize == 1      \* PipelineConfig.batch_size used by the model
MaxEvals == 2       \* stand-alone evaluator calls
MaxCalls == 4       \* answers a decorated function is prepared to give
MaxLen == 4         \* samples of a generated price series
MaxPrice == 3       \* close prices of a generated price series: 1..MaxPrice
MaxVolumes == 6     \* daily volumes in the 30-day window of a volume check
MaxEvaluators == 2  \* alert evaluations that may overlap in time
MaxCurrentPrice == 12   \* current prices of a price-target calculation: 1..MaxCurrentPrice

\* ------------------------------------------------------- program constants
ErrorCap == 10              \* result.errors[:10] / result.warnings[:10]
MinHistory == 2             \* len(prices) < 2 : skip the stock
DefaultThreshold == 5       \* rule.parameters.get('threshold', 5.0)
max_attempts == 3           \* @retry(max_attempts=3, delay=2.0) on NGXDataSource.fetch
delay == 2                  \* seconds
backoff == 2                \* retry(): backoff: float = 2.0
MA_SHORT_PERIOD == 20       \* IndicatorCalculator defaults
MA_LONG_PERIOD == 50
RSI_PERIOD == 14
NeutralRsi == 50            \* df['rsi'].fillna(50)
BOLLINGER_PERIOD == 20
MinVolumeRows == 5          \* _check_volume_spike: len(prices) < 5
DefaultMultiplier == 2      \* rule.parameters.get('multiplier', 2.0)
VOLATILITY_PERIOD == 30

Symbols == {"S1", "S2"}
RowKinds == {"good", "badexch"}
Rows == [stock_code : Symbols, kind : RowKinds]

\* Exception classes that matter to the handlers (utils/exceptions.py):
\* both derive from Exception.
ExcTypes == {"DataValidationError", "DatabaseError"}

StageNames == <<"fetch_data", "validate_data", "transform_data", "load_stocks",
                "load_prices", "calculate_indicators", "evaluate_alerts",
                "generate_recommendations">>

VARIABLES
    config,             \* PipelineConfig flags of the orchestrator
    settings,           \* settings.notifications: email_enabled, slack_enabled
    pc,                 \* position of run(): "idle", "stage1".."stage8", "finish", "except", "raised"
    today,              \* the trading day (execution_date of the current run)
    run_no,             \* number of runs started
    errors,             \* self.errors
    warnings,           \* self.warnings
    stage_times,        \* keys of self.stage_times
    raw_data,           \* run() local
    validated_data,     \* run() local
    transformed_data,   \* run() local
    counts,             \* run() locals: stocks_processed, prices_loaded, ...
    batch_i,            \* _load_prices: start index of the next batch (0-based)
    loaded_count,       \* _load_prices: loaded_count
    session_pending,    \* _load_prices: rows flushed by its session and not yet committed
    pending_exc,        \* exception travelling to run()'s handler, or "none"
    results,            \* what the current run has returned: <<>> or <<PipelineResult>>
    stock_store,        \* dim_stocks: committed stock codes
    price_store,        \* fact_daily_prices: committed [stock_code, price_date, change_1d_pct]
    indicator_store,    \* fact_technical_indicators: committed [stock_code, calculation_date]
    alert_store,        \* alert_history: committed rows, a sequence (alert_id = position)
    rec_store,          \* fact_recommendations: committed rows, a sequence
    rule_store,         \* alert_rules
    faults,             \* collaborator failures so far
    trace,              \* stages executed by the current run, in order (history)
    aborted,            \* "none", or why the current/last run returned early (history)
    step,               \* what the last step did (history)
    evals,              \* stand-alone evaluator calls: date, alerts generated, data seen (history)
    open_sessions,      \* stages whose database session is open (not yet closed)
    held,               \* a returned PipelineResult a caller holds on to: <<>> or <<result>>
    shared,             \* are the lists of the held result the objects self.errors etc. name
    retry,              \* one call through the @retry decorator: attempt, waits, outcome
    delisted,           \* dim_stocks: codes of the stocks with is_active = False
    calc,               \* a calculation on its own: the input series and what was computed from it
    evaluators,         \* alert evaluations running side by side: position and generated alerts
    fetched             \* history, where it is kept: the date and the fetched rows of each run

vars == <<config, settings, pc, today, run_no, errors, warnings, stage_times,
          raw_data, validated_data, transformed_data, counts, batch_i,
          loaded_count, session_pending, pending_exc, results, stock_store, price_store,
          indicator_store, alert_store, rec_store, rule_store, faults, trace,
          aborted, step, evals, open_sessions, held, shared, retry, delisted, calc,
          evaluators, fetched>>

\* state run() does not write: the caller's held result, the decorator, the
\* calculator, the delisting of stocks
sidevars == <<held, shared, retry, delisted, calc, evaluators, fetched>>

runvars == <<errors, warnings, stage_times, raw_data, validated_data,
             transformed_data, counts, batch_i, loaded_count, session_pending,
             pending_exc, results, trace, aborted>>
storevars == <<stock_store, price_store, indicator_store, alert_store, rec_store>>

\* everything of the orchestrator and its database
pipevars == <<open_sessions, config, settings, pc, today, run_no, runvars, storevars,
              rule_store, faults, evals, step>>

\* ----------------------------------------------------------------- helpers
Min(a, b) == IF a < b THEN a ELSE b

Range(s) == {s[i] : i \in 1..Len(s)}

RECURSIVE SeqOfSet(_)
SeqOfSet(S) ==
    IF S = {} THEN <<>>
    ELSE LET x == CHOOSE y \in S : \A z \in S : y <= z
         IN <<x>> \o SeqOfSet(S \ {x})

\* stocks come back ordered by stock_code (get_all_active: order_by)
RECURSIVE SortedCodes(_)
SortedCodes(S) ==
    IF S = {} THEN <<>>
    ELSE LET x == IF "S1" \in S THEN "S1" ELSE CHOOSE y \in S : TRUE
         IN <<x>> \o SortedCodes(S \ {x})

SelectIdx(s, P(_)) == SeqOfSet({i \in 1..Len(s) : P(i)})

\* the first n elements, list[:n]
Take(s, n) == SubSeq(s, 1, Min(n, Len(s)))

\* all sequences over S of length 1..n
SeqsUpTo(S, n) == UNION {[1..k -> S] : k \in 1..n}

\* AlertEvaluationResult(0, 0, 0, [])
NoResult == [stocks_checked |-> 0, rules_evaluated |-> 0, alerts_generated |-> 0,
             alerts |-> <<>>]

NoStep == [stage |-> "none", raised |-> FALSE, fatal |-> FALSE,
           notify_failures |-> 0, failed_batch |-> 0, failed_rows |-> {},
           checked |-> {}, failed_pairs |-> {}, result |-> NoResult,
           notified |-> {}, stored |-> {}]

ZeroCounts == [stocks_processed |-> 0, prices_loaded |-> 0,
               indicators_calculated |-> 0, alerts_generated |-> 0,
               recommendations_generated |-> 0]

\* except clauses: `except cls` catches exc iff exc is cls or derives from it
Catches(cls, exc) == cls = "Exception" \/ exc = cls

\* ------------------------------------------------------- PipelineResult
\* _build_result: the result carries self.errors, self.warnings, self.stage_times
_build_result(success, c, errs, warns, times) ==
    [success |-> success,
     stocks_processed |-> c.stocks_processed,
     prices_loaded |-> c.prices_loaded,
     indicators_calculated |-> c.indicators_calculated,
     alerts_generated |-> c.alerts_generated,
     recommendations_generated |-> c.recommendations_generated,
     errors |-> errs, warnings |-> warns, stage_times |-> times,
     run |-> run_no]

\* early return of run(): _build_result(start_time, False, 0, 0, 0, 0)
AbortResult(errs, warns, times) == _build_result(FALSE, ZeroCounts, errs, warns, times)

\* the history of the runs' inputs, not kept / kept and empty
NoFetched == [on |-> FALSE, log |-> <<>>]
KeepFetched == [on |-> TRUE, log |-> <<>>]

\* run(execution_date) with the frame _fetch_data returned, noted where
\* the history is kept
Remember(rows) ==
    IF fetched.on
    THEN [fetched EXCEPT !.log = Append(@, [date |-> today, rows |-> rows])]
    ELSE fetched

\* no alert evaluation runs beside the pipeline
NoEvaluators == [e \in 1..MaxEvaluators |-> [state |-> "none", alerts |-> <<>>]]

\* no call through the decorator is in progress
NoRetry == [state |-> "none", attempt |-> 0, current_delay |-> 0,
            last_exception |-> "none", calls |-> 0, slept |-> <<>>,
            outcomes |-> <<>>, result |-> 0]

\* the calculator has not been given a series
NoCalc == [state |-> "none", input |-> <<>>, output |-> <<>>]

\* ------------------------------------------------------------------ Init
Flags == {"fetch_ngx", "fetch_yahoo", "validate_data", "load_stocks",
          "load_prices", "calculate_indicators", "evaluate_alerts",
          "generate_recommendations"}

InitialRules ==
    { [rule_id |-> 1, rule_type |-> "PRICE_MOVEMENT", threshold |-> DefaultThreshold,
       severity |-> "CRITICAL", is_active |-> TRUE],
      [rule_id |-> 2, rule_type |-> "PRICE_MOVEMENT", threshold |-> DefaultThreshold,
       severity |-> "WARNING", is_active |-> TRUE],
      [rule_id |-> 3, rule_type |-> "PRICE_MOVEMENT", threshold |-> DefaultThreshold,
       severity |-> "CRITICAL", is_active |-> FALSE],
      [rule_id |-> 4, rule_type |-> "CUSTOM", threshold |-> DefaultThreshold,
       severity |-> "INFO", is_active |-> TRUE] }

InitBase ==
    /\ pc = "idle"
    /\ today = 1
    /\ run_no = 0
    /\ errors = <<>>
    /\ warnings = <<>>
    /\ stage_times = {}
    /\ raw_data = <<>>
    /\ validated_data = <<>>
    /\ transformed_data = <<>>
    /\ counts = ZeroCounts
    /\ batch_i = 0
    /\ loaded_count = 0
    /\ session_pending = {}
    /\ pending_exc = "none"
    /\ results = <<>>
    /\ stock_store = {}
    /\ price_store = {}
    /\ indicator_store = {}
    /\ alert_store = <<>>
    /\ rec_store = <<>>
    /\ rule_store = InitialRules
    /\ faults = 0
    /\ trace = <<>>
    /\ aborted = "none"
    /\ step = NoStep
    /\ evals = <<>>
    /\ open_sessions = {}
    /\ held = <<>>
    /\ shared = FALSE
    /\ retry = NoRetry
    /\ delisted = {}
    /\ evaluators = NoEvaluators

InitCommon ==
    /\ InitBase
    /\ fetched = NoFetched
    /\ calc = NoCalc

Init ==
    /\ config \in [Flags -> BOOLEAN]
    /\ settings = [email_enabled |-> FALSE, slack_enabled |-> FALSE]
    /\ InitCommon

\* ------------------------------------------------------------- run(): start
\* run(), "Reset metrics": are the lists of an earlier result still the
\* lists self.errors, self.warnings, self.stage_times name afterwards.
\* `self.errors = []` binds the attributes to new objects.
ResetMetrics_InPlace(sh) == sh

ResetMetrics(sh) == FALSE

\* run(): "Reset metrics" and the zeroed counters
RunStart ==
    /\ pc = "idle"
    /\ run_no < MaxRuns
    /\ run_no' = run_no + 1
    /\ errors' = <<>>
    /\ warnings' = <<>>
    /\ stage_times' = {}
    /\ raw_data' = <<>>
    /\ validated_data' = <<>>
    /\ transformed_data' = <<>>
    /\ counts' = ZeroCounts
    /\ batch_i' = 0
    /\ loaded_count' = 0
    /\ session_pending' = {}
    /\ pending_exc' = "none"
    /\ trace' = <<>>
    /\ aborted' = "none"
    /\ step' = NoStep
    /\ pc' = "stage1"
    /\ results' = <<>>
    /\ shared' = ResetMetrics(shared)
    /\ UNCHANGED <<evaluators, fetched, held, retry, delisted, calc, open_sessions, config, settings, today,
                   storevars, rule_store, faults, evals>>

\* the calendar moves on between runs
NextDay ==
    /\ pc = "idle"
    /\ today < MaxDate
    /\ today' = today + 1
    /\ step' = NoStep
    /\ UNCHANGED <<sidevars, open_sessions, config, settings, pc, run_no, runvars, storevars, rule_store, faults, evals>>

\* ---------------------------------------------------------- except clauses
\* the exception class each handler names
RunHandler_Narrow == "DataValidationError"
RunHandler == "Exception"
ValidateHandler == "DataValidationError"
TransformHandler == "Exception"
LoadStocksHandler == "Exception"
LoadPricesHandler == "Exception"
IndicatorsHandler == "Exception"
AlertsHandler == "Exception"
RecommendationsHandler == "Exception"

\* a step that may use one collaborator failure
CanFail == faults < MaxFaults

\* run() returns early with _build_result(start_time, False, 0, 0, 0, 0)
ReturnAbort_GoesOn(why, errs, warns, times) ==
    /\ results' = results
    /\ aborted' = why
    /\ pc' = "stage3"

ReturnAbort(why, errs, warns, times) ==
    /\ results' = Append(results, AbortResult(errs, warns, times))
    /\ aborted' = why
    /\ pc' = "idle"

\* ------------------------------------------------------ stage 1: fetch
FetchOutcomes ==
    [kind : {"rows"}, rows : {<<>>} \cup SeqsUpTo(Rows, MaxRows)]
        \cup [kind : {"raise"}, rows : {<<>>}]

\* _fetch_data: what it returns and what it appends to errors / warnings
_fetch_data(out) ==
    IF config.fetch_ngx
    THEN IF out.kind = "raise"
         THEN [data |-> <<>>, err |-> <<"NGX fetch failed">>, warn |-> <<>>]
         ELSE IF out.rows # <<>>
              THEN [data |-> out.rows, err |-> <<>>, warn |-> <<>>]
              ELSE [data |-> <<>>, err |-> <<>>, warn |-> <<"No data from NGX">>]
    ELSE [data |-> <<>>, err |-> <<>>, warn |-> <<>>]

\* run(): the condition of "Stage 1: Fetch data"
RunsStage1 == config.fetch_ngx \/ config.fetch_yahoo

Stage1_Fetch ==
    /\ pc = "stage1"
    /\ IF RunsStage1
       THEN \E out \in FetchOutcomes :
            /\ out.kind = "raise" => (config.fetch_ngx /\ CanFail)
            /\ (~config.fetch_ngx) => out.rows = <<>>
            /\ LET r == _fetch_data(out)
                   e == errors \o r.err
                   t == stage_times \cup {"fetch_data"}
               IN /\ faults' = IF out.kind = "raise" THEN faults + 1 ELSE faults
                  /\ errors' = e
                  /\ stage_times' = t
                  /\ trace' = Append(trace, "fetch_data")
                  /\ raw_data' = r.data
                  /\ fetched' = Remember(r.data)
                  /\ step' = [NoStep EXCEPT !.stage = "fetch_data",
                                            !.raised = (out.kind = "raise"),
                                            !.fatal = (r.data = <<>>)]
                  /\ IF r.data = <<>>
                     THEN LET w == (warnings \o r.warn) \o <<"No data fetched from any source">>
                          IN /\ warnings' = w
                             /\ ReturnAbort("fetch", e, w, t)
                     ELSE /\ warnings' = warnings \o r.warn
                          /\ pc' = "stage2"
                          /\ UNCHANGED <<results, aborted>>
       ELSE /\ raw_data' = <<>>
            /\ fetched' = Remember(<<>>)
            /\ pc' = "stage2"
            /\ step' = NoStep
            /\ UNCHANGED <<errors, warnings, stage_times, trace, results, aborted, faults>>
    /\ UNCHANGED <<held, shared, retry, delisted, calc, evaluators, open_sessions, config, settings, today, run_no, validated_data, transformed_data,
                   counts, batch_i, loaded_count, session_pending, pending_exc, storevars,
                   rule_store, evals>>

\* ---------------------------------------------------- stage 2: validate
\* DataValidator._check_duplicates: duplicated(subset=[stock_code, price_date], keep='first')
IsDuplicate(data, i) == \E j \in 1..(i - 1) : data[j].stock_code = data[i].stock_code

\* DataValidator._validate_exchanges
HasInvalidExchange(data, i) == data[i].kind = "badexch"

\* DataValidator.validate: the error list (exchange errors, then duplicates)
\* and the cleaned frame (rows named by an error are removed)
validate(data) ==
    LET bad == SelectIdx(data, LAMBDA i : HasInvalidExchange(data, i))
        dup == SelectIdx(data, LAMBDA i : IsDuplicate(data, i))
        errs == [k \in 1..Len(bad) |-> [index |-> bad[k], error |-> "Invalid exchange"]]
                  \o [k \in 1..Len(dup) |-> [index |-> dup[k], error |-> "Duplicate stock_code + price_date"]]
        invalid_indices == {errs[k].index : k \in 1..Len(errs)}
        keep == SelectIdx(data, LAMBDA i : i \notin invalid_indices)
    IN [cleaned |-> [k \in 1..Len(keep) |-> data[keep[k]]],
        errors |-> errs,
        invalid_count |-> Len(errs)]

\* _validate_data: "Add errors for invalid records": the first ErrorCap
\* entries; duplicates become warnings, the others errors
ValidationErrors(verrs) ==
    LET first == Take(verrs, ErrorCap)
        idx == SelectIdx(first, LAMBDA k : first[k].error # "Duplicate stock_code + price_date")
    IN [k \in 1..Len(idx) |-> "Validation: Invalid exchange"]

ValidationWarnings(verrs) ==
    LET first == Take(verrs, ErrorCap)
        idx == SelectIdx(first, LAMBDA k : first[k].error = "Duplicate stock_code + price_date")
    IN [k \in 1..Len(idx) |-> "Validation: Duplicate stock_code + price_date"]

\* run(): the condition of "Stage 2: Validate data"
RunsStage2 == config.validate_data /\ raw_data # <<>>

\* where _validate_data can raise: opening the session / querying the
\* sectors (outside its try block), or validator.validate (inside it)
ValidateFailures ==
    {[site |-> "session", exc |-> "DatabaseError"]}
        \cup [site : {"validate"}, exc : ExcTypes]

\* is the exception raised at that site caught inside _validate_data
ValidateCatches(f) == f.site = "validate" /\ Catches(ValidateHandler, f.exc)

Stage2_Validate ==
    /\ pc = "stage2"
    /\ \/ /\ ~RunsStage2
          /\ validated_data' = raw_data
          /\ pc' = "stage3"
          /\ step' = NoStep
          /\ UNCHANGED <<errors, warnings, stage_times, trace, results, aborted,
                         faults, pending_exc>>
       \/ /\ RunsStage2
          /\ LET r == validate(raw_data)
                 e == errors \o ValidationErrors(r.errors)
                 w == warnings \o ValidationWarnings(r.errors)
                 t == stage_times \cup {"validate_data"}
             IN /\ errors' = e
                /\ warnings' = w
                /\ stage_times' = t
                /\ validated_data' = r.cleaned
                /\ trace' = Append(trace, "validate_data")
                /\ step' = [NoStep EXCEPT !.stage = "validate_data",
                                          !.fatal = (r.cleaned = <<>>)]
                /\ IF r.cleaned = <<>>
                   THEN ReturnAbort("validate", e, w, t)
                   ELSE pc' = "stage3" /\ UNCHANGED <<results, aborted>>
                /\ UNCHANGED <<faults, pending_exc>>
       \/ /\ RunsStage2
          /\ CanFail
          /\ \E f \in ValidateFailures :
               /\ faults' = faults + 1
               /\ trace' = Append(trace, "validate_data")
               /\ validated_data' = <<>>
               /\ IF ValidateCatches(f)
                  THEN LET e == Append(errors, "Validation error")
                       IN /\ errors' = e
                          /\ step' = [NoStep EXCEPT !.stage = "validate_data",
                                                    !.raised = TRUE, !.fatal = TRUE]
                          /\ ReturnAbort("validate", e, warnings, stage_times)
                          /\ UNCHANGED pending_exc
                  ELSE /\ pending_exc' = f.exc
                       /\ pc' = "except"
                       /\ step' = [NoStep EXCEPT !.stage = "validate_data", !.raised = TRUE]
                       /\ UNCHANGED <<errors, results, aborted>>
               /\ UNCHANGED <<warnings, stage_times>>
    /\ UNCHANGED <<sidevars, open_sessions, config, settings, today, run_no, raw_data, transformed_data,
                   counts, batch_i, loaded_count, session_pending, storevars, rule_store, evals>>

\* --------------------------------------------------- stage 3: transform
\* DataTransformer.deduplicate(keep='last') on (stock_code, price_date)
deduplicate(data) ==
    LET keep == SelectIdx(data, LAMBDA i :
                    ~\E j \in (i + 1)..Len(data) : data[j].stock_code = data[i].stock_code)
    IN [k \in 1..Len(keep) |-> data[keep[k]]]

\* run(): the condition of "Stage 3: Transform data"
RunsStage3 == validated_data # <<>>

\* a stage whose body raised exc: caught by the stage's own handler
\* (append msg to errors, go on with the next stage) or left to run()
StageRaises(handler, exc, msg, next) ==
    IF Catches(handler, exc)
    THEN /\ errors' = Append(errors, msg)
         /\ pc' = next
         /\ UNCHANGED pending_exc
    ELSE /\ pending_exc' = exc
         /\ pc' = "except"
         /\ UNCHANGED errors

Stage3_Transform ==
    /\ pc = "stage3"
    /\ \/ /\ ~RunsStage3
          /\ transformed_data' = <<>>
          /\ pc' = "stage4"
          /\ step' = NoStep
          /\ UNCHANGED <<errors, stage_times, trace, faults, pending_exc>>
       \/ /\ RunsStage3
          /\ transformed_data' = deduplicate(validated_data)
          /\ stage_times' = stage_times \cup {"transform_data"}
          /\ trace' = Append(trace, "transform_data")
          /\ pc' = "stage4"
          /\ step' = [NoStep EXCEPT !.stage = "transform_data"]
          /\ UNCHANGED <<errors, faults, pending_exc>>
       \/ /\ RunsStage3
          /\ CanFail
          /\ \E exc \in ExcTypes :
               /\ faults' = faults + 1
               /\ transformed_data' = <<>>
               /\ trace' = Append(trace, "transform_data")
               /\ step' = [NoStep EXCEPT !.stage = "transform_data", !.raised = TRUE]
               /\ StageRaises(TransformHandler, exc, "Transformation error", "stage4")
               /\ UNCHANGED stage_times
    /\ UNCHANGED <<sidevars, open_sessions, config, settings, today, run_no, warnings, raw_data, validated_data,
                   counts, batch_i, loaded_count, session_pending, results, aborted, storevars,
                   rule_store, evals>>

\* ------------------------------------------------- sessions (SQLAlchemy)
\* session.commit(): the flushed rows become part of the table
Commit(committed, pending) == committed \cup pending

\* session.rollback(): the flushed rows of the open transaction are dropped
Rollback(committed, pending) == committed

\* the session a stage of the current run works with
SessionOf(stage) == [run |-> run_no, stage |-> stage]

\* get_session(): a new session is open
OpenSession(stage) == open_sessions \cup {SessionOf(stage)}

\* session.close()
CloseSession(stage) == open_sessions \ {SessionOf(stage)}

\* ------------------------------------------------ stage 4: load stocks
\* unique stocks of the frame, in row order (drop_duplicates)
UniqueCodes(data) ==
    LET keep == SelectIdx(data, LAMBDA i :
                    ~\E j \in 1..(i - 1) : data[j].stock_code = data[i].stock_code)
    IN [k \in 1..Len(keep) |-> data[keep[k]].stock_code]

\* _load_stocks, the loop: a stock already stored is left alone (its name
\* is unchanged), a new one is created; a create that fails (F: positions)
\* is caught per row, after BaseRepository.create rolled the session back
LoadStocksLoop(codes, F) ==
    LET new == {i \in 1..Len(codes) : codes[i] \notin stock_store}
        created == new \ F
        kept == {i \in created : \A f \in F : f < i}
    IN [loaded_count |-> Cardinality(created),
        pending |-> {codes[i] : i \in kept},
        failed |-> {codes[i] : i \in F},
        warn |-> [k \in 1..Cardinality(F) |-> "Failed to load stock"]]

\* run(): the condition of "Stage 4: Load stocks"
RunsStage4 == config.load_stocks /\ transformed_data # <<>>

Stage4_LoadStocks ==
    /\ pc = "stage4"
    /\ \/ /\ ~RunsStage4
          /\ pc' = "stage5"
          /\ step' = NoStep
          /\ UNCHANGED <<errors, warnings, stage_times, trace, faults, pending_exc,
                         counts, stock_store>>
       \/ /\ RunsStage4
          /\ LET codes == UniqueCodes(transformed_data)
                 new == {i \in 1..Len(codes) : codes[i] \notin stock_store}
             IN \E F \in SUBSET new :
                  /\ faults + Cardinality(F) <= MaxFaults
                  /\ LET r == LoadStocksLoop(codes, F)
                     IN \/ /\ faults' = faults + Cardinality(F)
                           /\ warnings' = warnings \o r.warn
                           /\ stock_store' = Commit(stock_store, r.pending)
                           /\ counts' = [counts EXCEPT !.stocks_processed = r.loaded_count]
                           /\ stage_times' = stage_times \cup {"load_stocks"}
                           /\ pc' = "stage5"
                           /\ step' = [NoStep EXCEPT !.stage = "load_stocks",
                                                     !.raised = (F # {}),
                                                     !.failed_rows = r.failed]
                           /\ UNCHANGED <<errors, pending_exc>>
                        \/ \* session.commit() raises
                           /\ faults + Cardinality(F) < MaxFaults
                           /\ faults' = faults + Cardinality(F) + 1
                           /\ warnings' = warnings \o r.warn
                           /\ stock_store' = Rollback(stock_store, r.pending)
                           /\ step' = [NoStep EXCEPT !.stage = "load_stocks", !.raised = TRUE]
                           /\ StageRaises(LoadStocksHandler, "DatabaseError",
                                          "Stock loading error", "stage5")
                           /\ UNCHANGED <<counts, stage_times>>
          /\ trace' = Append(trace, "load_stocks")
    /\ UNCHANGED <<sidevars, open_sessions, config, settings, today, run_no, raw_data, validated_data,
                   transformed_data, batch_i, loaded_count, session_pending, results,
                   aborted, price_store, indicator_store, alert_store, rec_store,
                   rule_store, evals>>

\* ------------------------------------------------ stage 5: load prices
\* the daily change a symbol's row carries (input of the model)
ChangeOf(code) == IF code = "S1" THEN 6 ELSE 3

\* the price record _load_prices prepares for a row
PriceRecord(row, d) ==
    [stock_code |-> row.stock_code, price_date |-> d,
     change_1d_pct |-> ChangeOf(row.stock_code)]

\* idx_stock_date: unique (stock_id, price_date)
ViolatesStockDate(recs, table) ==
    \E r \in recs : \E p \in table :
        p.stock_code = r.stock_code /\ p.price_date = r.price_date

\* the rows of the batch that starts after position i
BatchRows(data, i) == {k \in (i + 1)..Min(i + BatchSize, Len(data)) : TRUE}

\* _load_prices: session.commit() after each bulk insert
BatchCommit_AtEnd(committed, pending) == committed

BatchCommit(committed, pending) == Commit(committed, pending)

\* run(): the condition of "Stage 5: Load prices"
RunsStage5_AnyFlag == transformed_data # <<>>

RunsStage5 == config.load_prices /\ transformed_data # <<>>

\* one iteration of the batch loop of _load_prices (the last one also
\* leaves the session block and returns)
Stage5_LoadPrices ==
    /\ pc = "stage5"
    /\ \/ /\ ~RunsStage5
          /\ pc' = "stage6"
          /\ step' = NoStep
          /\ UNCHANGED <<errors, warnings, stage_times, trace, faults, pending_exc,
                         counts, price_store, batch_i, loaded_count, session_pending,
                         open_sessions>>
       \/ /\ RunsStage5
          /\ LET rows == BatchRows(transformed_data, batch_i)
                 found == {k \in rows : transformed_data[k].stock_code \in stock_store}
                 price_records == {PriceRecord(transformed_data[k], today) : k \in found}
                 w == warnings \o [k \in 1..Cardinality(rows \ found) |-> "Stock not found"]
                 last == batch_i + BatchSize >= Len(transformed_data)
                 batch_no == (batch_i \div BatchSize) + 1
             IN /\ trace' = IF batch_i = 0 THEN Append(trace, "load_prices") ELSE trace
                /\ warnings' = w
                /\ \/ \* the batch is inserted (or has nothing to insert)
                      /\ ~ViolatesStockDate(price_records, price_store \cup session_pending)
                      /\ LET flushed == session_pending \cup price_records
                             stored == IF price_records # {}
                                       THEN BatchCommit(price_store, flushed)
                                       ELSE price_store
                             left == flushed \ stored
                             n == loaded_count + Cardinality(price_records)
                         IN /\ loaded_count' = n
                            /\ batch_i' = batch_i + BatchSize
                            /\ IF last
                               THEN /\ price_store' = Commit(stored, left)
                                    /\ session_pending' = {}
                                    /\ open_sessions' = CloseSession("load_prices")
                                    /\ stage_times' = stage_times \cup {"load_prices"}
                                    /\ counts' = [counts EXCEPT !.prices_loaded = n]
                                    /\ pc' = "stage6"
                               ELSE /\ price_store' = stored
                                    /\ session_pending' = left
                                    /\ open_sessions' = OpenSession("load_prices")
                                    /\ pc' = "stage5"
                                    /\ UNCHANGED <<stage_times, counts>>
                      /\ step' = [NoStep EXCEPT !.stage = "load_prices"]
                      /\ UNCHANGED <<errors, faults, pending_exc>>
                   \/ \* bulk_insert raises: unique index, or the database fails
                      /\ price_records # {}
                      /\ \/ /\ ViolatesStockDate(price_records, price_store \cup session_pending)
                            /\ UNCHANGED faults
                         \/ /\ CanFail
                            /\ faults' = faults + 1
                      /\ price_store' = Rollback(price_store, session_pending \cup price_records)
                      /\ session_pending' = {}
                      /\ open_sessions' = CloseSession("load_prices")
                      /\ step' = [NoStep EXCEPT !.stage = "load_prices", !.raised = TRUE,
                                                !.failed_batch = batch_no]
                      /\ StageRaises(LoadPricesHandler, "DatabaseError",
                                     "Price loading error", "stage6")
                      /\ UNCHANGED <<stage_times, counts, batch_i, loaded_count>>
    /\ UNCHANGED <<sidevars, config, settings, today, run_no, raw_data, validated_data,
                   transformed_data, results, aborted, stock_store, indicator_store,
                   alert_store, rec_store, rule_store, evals>>

\* ------------------------------------------- stage 6: calculate indicators
\* PriceRepository.get_price_history(stock, start, end): the dates in range
\* (the 100-day look-back covers every day of the model)
PriceDates(code, d) == {p.price_date : p \in {q \in price_store :
                            q.stock_code = code /\ q.price_date <= d}}

\* one stock of the loop of _calculate_indicators: fewer than MinHistory
\* prices: skipped; otherwise one indicator row per price row is created
\* in date order until idx_stock_calc_date (unique) rejects one, then the
\* stock's rows are rolled back.  Returns the rows committed and created.
IndicatorsForStock(code, d, table) ==
    LET dates == PriceDates(code, d)
        taken == {r.calculation_date : r \in {x \in table : x.stock_code = code}}
        clash == dates \cap taken
        before == IF clash = {} THEN dates
                  ELSE {x \in dates : \A c \in clash : x < c}
    IN IF Cardinality(dates) < MinHistory
       THEN [rows |-> {}, created |-> 0, failed |-> FALSE]
       ELSE IF clash = {}
            THEN [rows |-> {[stock_code |-> code, calculation_date |-> x] : x \in dates},
                  created |-> Cardinality(dates), failed |-> FALSE]
            ELSE [rows |-> {}, created |-> Cardinality(before), failed |-> TRUE]

\* StockRepository.get_all_active(): filter is_active, order_by stock_code
get_all_active == SortedCodes(stock_store \ delisted)

\* the loop over the stocks; F: the stocks whose calculation raises
RECURSIVE IndicatorsLoop(_, _, _, _)
IndicatorsLoop(codes, d, table, F) ==
    IF codes = <<>> THEN [table |-> table, count |-> 0, warn |-> <<>>, failed |-> {}]
    ELSE LET c == Head(codes)
             r == IF c \in F THEN [rows |-> {}, created |-> 0, failed |-> TRUE]
                  ELSE IndicatorsForStock(c, d, table)
             rest == IndicatorsLoop(Tail(codes), d, Commit(table, r.rows), F)
         IN [table |-> rest.table,
             count |-> r.created + rest.count,
             failed |-> (IF r.failed THEN {c} ELSE {}) \cup rest.failed,
             warn |-> (IF r.failed THEN <<"Indicator calculation failed">> ELSE <<>>)
                          \o rest.warn]

\* run(): the condition of "Stage 6: Calculate indicators"
RunsStage6 == config.calculate_indicators

Stage6_Indicators ==
    /\ pc = "stage6"
    /\ \/ /\ ~RunsStage6
          /\ pc' = "stage7"
          /\ step' = NoStep
          /\ UNCHANGED <<errors, warnings, stage_times, trace, faults, pending_exc,
                         counts, indicator_store>>
       \/ /\ RunsStage6
          /\ trace' = Append(trace, "calculate_indicators")
          /\ \/ \E F \in SUBSET {c \in Range(get_all_active) :
                                     Cardinality(PriceDates(c, today)) >= MinHistory} :
                  /\ faults + Cardinality(F) <= MaxFaults
                  /\ faults' = faults + Cardinality(F)
                  /\ LET r == IndicatorsLoop(get_all_active, today, indicator_store, F)
                     IN /\ indicator_store' = r.table
                        /\ warnings' = warnings \o r.warn
                        /\ counts' = [counts EXCEPT !.indicators_calculated = r.count]
                        /\ step' = [NoStep EXCEPT !.stage = "calculate_indicators",
                                                  !.raised = (r.warn # <<>>),
                                                  !.failed_rows = r.failed]
                  /\ stage_times' = stage_times \cup {"calculate_indicators"}
                  /\ pc' = "stage7"
                  /\ UNCHANGED <<errors, pending_exc>>
             \/ \* the stock query raises
                /\ CanFail
                /\ faults' = faults + 1
                /\ step' = [NoStep EXCEPT !.stage = "calculate_indicators", !.raised = TRUE]
                /\ StageRaises(IndicatorsHandler, "DatabaseError",
                               "Indicator calculation error", "stage7")
                /\ UNCHANGED <<warnings, stage_times, counts, indicator_store>>
    /\ UNCHANGED <<sidevars, open_sessions, config, settings, today, run_no, raw_data, validated_data,
                   transformed_data, batch_i, loaded_count, session_pending, results,
                   aborted, stock_store, price_store, alert_store, rec_store,
                   rule_store, evals>>

\* ---------------------------------------------- AlertEvaluator, repositories
\* AlertRepository.get_all_rules(active_only=True), ordered by rule_id
ActiveRules_All == SeqOfSet({r.rule_id : r \in rule_store})

ActiveRules == SeqOfSet({r.rule_id : r \in {x \in rule_store : x.is_active}})

RuleById(rid) == CHOOSE r \in rule_store : r.rule_id = rid

\* AlertRepository.alert_exists(stock_id, rule_id, alert_date)
alert_exists_Never(code, rid, d) == FALSE

alert_exists(code, rid, d) ==
    \E i \in 1..Len(alert_store) :
        /\ alert_store[i].stock_code = code
        /\ alert_store[i].rule_id = rid
        /\ alert_store[i].alert_date = d

\* AlertRepository.create_alert: the row made of the alert's fields;
\* trigger_value is the argument of that name, None (the empty tuple
\* here, <<x>> for a value x) when it is not passed
create_alert(alert_data) ==
    [stock_code |-> alert_data.stock_code,
     rule_id |-> alert_data.rule_id,
     alert_date |-> alert_data.alert_date,
     severity |-> alert_data.severity,
     trigger_value |-> IF "trigger_value" \in DOMAIN alert_data
                       THEN <<alert_data.trigger_value>> ELSE <<>>]

\* PriceRepository.get_latest_by_code: the most recent price row, or none
HasPrice(code) == \E p \in price_store : p.stock_code = code

get_latest_by_code(code) ==
    CHOOSE p \in price_store :
        /\ p.stock_code = code
        /\ \A q \in price_store : q.stock_code = code => q.price_date <= p.price_date

Abs(x) == IF x < 0 THEN -x ELSE x

\* _check_price_movement: does the rule fire for the stock
_check_price_movement(rule, code) ==
    /\ HasPrice(code)
    /\ Abs(get_latest_by_code(code).change_1d_pct) >= rule.threshold

\* _check_rule_for_stock: an alert exists already: None; otherwise the
\* handler of the rule type decides; an unknown type gives None
_check_rule_for_stock(rule, code, d) ==
    IF alert_exists(code, rule.rule_id, d) THEN FALSE
    ELSE IF rule.rule_type = "PRICE_MOVEMENT" THEN _check_price_movement(rule, code)
    ELSE FALSE

\* the (rule, stock) pairs in the order evaluate_all_rules visits them
RulePairs ==
    LET rs == ActiveRules
        ss == get_all_active
    IN [k \in 1..(Len(rs) * Len(ss)) |->
            [rule_id |-> rs[((k - 1) \div Len(ss)) + 1],
             stock_code |-> ss[((k - 1) % Len(ss)) + 1]]]

\* _evaluate_rule, the loop over the stocks: is the check of pair k done
\* and its answer used, when the checks at the positions F raise.  The try
\* is inside the loop: an exception ends that pair's check only.
_evaluate_rule_TryAroundLoop(k, F) ==
    LET n == Len(get_all_active)
    IN ~\E f \in F : f <= k /\ (f - 1) \div n = (k - 1) \div n

_evaluate_rule(k, F) == k \notin F

\* evaluate_all_rules(evaluation_date); F: positions of the pairs whose
\* check raises (caught and logged by _evaluate_rule)
evaluate_all_rules(d, F) ==
    LET pairs == RulePairs
        hit == SelectIdx(pairs, LAMBDA k :
                   /\ _evaluate_rule(k, F)
                   /\ _check_rule_for_stock(RuleById(pairs[k].rule_id),
                                            pairs[k].stock_code, d))
        alerts == [k \in 1..Len(hit) |->
                      [stock_code |-> pairs[hit[k]].stock_code,
                       rule_id |-> pairs[hit[k]].rule_id,
                       alert_date |-> d,
                       severity |-> RuleById(pairs[hit[k]].rule_id).severity,
                       metadata |->
                           [change_pct |->
                                get_latest_by_code(pairs[hit[k]].stock_code).change_1d_pct,
                            threshold |-> RuleById(pairs[hit[k]].rule_id).threshold]]]
    IN [stocks_checked |-> IF Len(ActiveRules) = 0 THEN 0 ELSE Len(get_all_active),
        rules_evaluated |-> Len(ActiveRules),
        alerts_generated |-> Len(alerts),
        alerts |-> alerts]

\* save_alerts, the loop: a create that raises (F: positions) is skipped,
\* after BaseRepository.create rolled the session back; returns saved_count
\* and the rows still pending at alert_repo.commit()
save_alerts(alerts, F) ==
    LET kept == SelectIdx(alerts, LAMBDA i : i \notin F /\ \A f \in F : f < i)
    IN [saved_count |-> Len(alerts) - Cardinality(F),
        pending |-> [k \in 1..Len(kept) |-> create_alert(alerts[kept[k]])]]

\* --------------------------------------------------------- notifications
\* __init__: the notifier exists iff a channel is enabled
HasNotifier == settings.email_enabled \/ settings.slack_enabled

\* what identifies an alert: stock, rule and date
AlertKey(a) == [stock_code |-> a.stock_code, rule_id |-> a.rule_id,
                alert_date |-> a.alert_date]

CriticalAlerts(alerts) == {i \in 1..Len(alerts) : alerts[i].severity = "CRITICAL"}
WarningAlerts(alerts) == {i \in 1..Len(alerts) : alerts[i].severity = "WARNING"}

SendOutcomes == {"ok", "fail", "raise"}

\* what the notifier does: channel setup raises, each send, the digest
NotifyOutcomes(alerts) ==
    [setup_raises : BOOLEAN,
     send : [CriticalAlerts(alerts) -> SendOutcomes],
     digest : SendOutcomes]

SendsDigest(alerts) == settings.email_enabled /\ WarningAlerts(alerts) # {}

\* the failures an outcome holds
NotifyFailures(alerts, out) ==
    IF out.setup_raises THEN 1
    ELSE Cardinality({i \in CriticalAlerts(alerts) : out.send[i] # "ok"})
           + (IF SendsDigest(alerts) /\ out.digest # "ok" THEN 1 ELSE 0)

\* _send_alert_notifications: what it appends to warnings and to errors
_send_alert_notifications_Errors(alerts, out) ==
    IF NotifyFailures(alerts, out) > 0
    THEN [warn |-> <<>>, err |-> <<"Notification setup error">>]
    ELSE [warn |-> <<>>, err |-> <<>>]

_send_alert_notifications(alerts, out) ==
    IF out.setup_raises
    THEN [warn |-> <<"Notification setup error">>, err |-> <<>>]
    ELSE LET crit == SeqOfSet(CriticalAlerts(alerts))
             bad == SelectIdx(crit, LAMBDA k : out.send[crit[k]] # "ok")
             sends == [k \in 1..Len(bad) |->
                          IF out.send[crit[bad[k]]] = "fail"
                          THEN "Notification failed for alert"
                          ELSE "Notification exception for alert"]
             digest == IF SendsDigest(alerts) /\ out.digest = "fail"
                       THEN <<"Daily digest failed">>
                       ELSE IF SendsDigest(alerts) /\ out.digest = "raise"
                            THEN <<"Daily digest exception">>
                            ELSE <<>>
         IN [warn |-> sends \o digest, err |-> <<>>]

\* the alerts a notification went out for: the critical ones whose
\* send_alert succeeded, and all of them when send_daily_digest succeeded
Notified(alerts, out) ==
    IF out.setup_raises THEN {}
    ELSE {AlertKey(alerts[i]) : i \in {k \in CriticalAlerts(alerts) : out.send[k] = "ok"}}
            \cup (IF SendsDigest(alerts) /\ out.digest = "ok"
                  THEN {AlertKey(alerts[i]) : i \in 1..Len(alerts)} ELSE {})

\* -------------------------------------------- stage 7: evaluate alerts
\* where _evaluate_alerts can raise before the alerts are saved: in
\* AlertEvaluator() (get_session), or in a query of the open session
EvaluatorFailures == {"construct", "query"}

\* run(): the condition of "Stage 7: Evaluate alerts"
RunsStage7 == config.evaluate_alerts

\* _evaluate_alerts after the evaluation and the save: notifications (if a
\* notifier is configured), close, stage time, the returned count
AlertsDone(r, sv, spent) ==
    /\ alert_store' = alert_store \o sv.pending
    /\ open_sessions' = CloseSession("evaluate_alerts")
    /\ counts' = [counts EXCEPT !.alerts_generated = r.alerts_generated]
    /\ stage_times' = stage_times \cup {"evaluate_alerts"}
    /\ pc' = "stage8"
    /\ UNCHANGED pending_exc
    /\ IF HasNotifier /\ r.alerts # <<>>
       THEN \E out \in NotifyOutcomes(r.alerts) :
              /\ out.setup_raises =>
                     (out.digest = "ok" /\ \A i \in CriticalAlerts(r.alerts) : out.send[i] = "ok")
              /\ ~SendsDigest(r.alerts) => out.digest = "ok"
              /\ spent + NotifyFailures(r.alerts, out) <= MaxFaults
              /\ faults' = spent + NotifyFailures(r.alerts, out)
              /\ LET n == _send_alert_notifications(r.alerts, out)
                 IN /\ warnings' = warnings \o n.warn
                    /\ errors' = errors \o n.err
              /\ step' = [NoStep EXCEPT !.stage = "evaluate_alerts",
                                        !.raised = (spent > faults),
                                        !.notify_failures = NotifyFailures(r.alerts, out),
                                        !.notified = Notified(r.alerts, out),
                                        !.stored = {AlertKey(a) : a \in Range(sv.pending)}]
       ELSE /\ faults' = spent
            /\ step' = [NoStep EXCEPT !.stage = "evaluate_alerts",
                                      !.raised = (spent > faults),
                                      !.stored = {AlertKey(a) : a \in Range(sv.pending)}]
            /\ UNCHANGED <<errors, warnings>>

Stage7_Alerts ==
    /\ pc = "stage7"
    /\ \/ /\ ~RunsStage7
          /\ pc' = "stage8"
          /\ step' = NoStep
          /\ UNCHANGED <<errors, warnings, stage_times, trace, faults, pending_exc,
                         counts, alert_store, open_sessions>>
       \/ /\ RunsStage7
          /\ trace' = Append(trace, "evaluate_alerts")
          /\ \/ \* AlertEvaluator() raises, or one of the evaluator's queries
                /\ CanFail
                /\ faults' = faults + 1
                /\ \E site \in EvaluatorFailures :
                     open_sessions' = IF site = "query"
                                      THEN OpenSession("evaluate_alerts")
                                      ELSE open_sessions
                /\ step' = [NoStep EXCEPT !.stage = "evaluate_alerts", !.raised = TRUE]
                /\ StageRaises(AlertsHandler, "DatabaseError",
                               "Alert evaluation error", "stage8")
                /\ UNCHANGED <<warnings, stage_times, counts, alert_store>>
             \/ \E F \in SUBSET (1..Len(RulePairs)) :
                  /\ faults + Cardinality(F) <= MaxFaults
                  /\ LET r == evaluate_all_rules(today, F)
                     IN \E G \in SUBSET (1..Len(r.alerts)) :
                          /\ faults + Cardinality(F) + Cardinality(G) <= MaxFaults
                          /\ LET sv == save_alerts(r.alerts, G)
                                 spent == faults + Cardinality(F) + Cardinality(G)
                             IN \/ AlertsDone(r, sv, spent)
                                \/ \* alert_repo.commit() raises
                                   /\ r.alerts # <<>>
                                   /\ spent < MaxFaults
                                   /\ faults' = spent + 1
                                   /\ alert_store' = alert_store
                                   /\ open_sessions' = OpenSession("evaluate_alerts")
                                   /\ step' = [NoStep EXCEPT !.stage = "evaluate_alerts",
                                                             !.raised = TRUE]
                                   /\ StageRaises(AlertsHandler, "DatabaseError",
                                                  "Alert evaluation error", "stage8")
                                   /\ UNCHANGED <<warnings, stage_times, counts>>
    /\ UNCHANGED <<sidevars, config, settings, today, run_no, raw_data, validated_data,
                   transformed_data, batch_i, loaded_count, session_pending, results,
                   aborted, stock_store, price_store, indicator_store, rec_store,
                   rule_store, evals>>

\* ------------------------------------- stage 8: generate recommendations
\* the stocks the advisor can score: those with indicators
Eligible == {c \in stock_store : \E r \in indicator_store : r.stock_code = c}

\* run(): the condition of "Stage 8: Generate recommendations"
RunsStage8 == config.generate_recommendations

Stage8_Recommendations ==
    /\ pc = "stage8"
    /\ \/ /\ ~RunsStage8
          /\ pc' = "finish"
          /\ step' = NoStep
          /\ UNCHANGED <<errors, stage_times, trace, faults, pending_exc, counts, rec_store>>
       \/ /\ RunsStage8
          /\ trace' = Append(trace, "generate_recommendations")
          /\ \/ \* the advisor or the store raises
                /\ CanFail
                /\ faults' = faults + 1
                /\ step' = [NoStep EXCEPT !.stage = "generate_recommendations",
                                          !.raised = TRUE]
                /\ StageRaises(RecommendationsHandler, "DatabaseError",
                               "Recommendation generation error", "finish")
                /\ UNCHANGED <<stage_times, counts, rec_store>>
             \/ \E picked \in SUBSET Eligible :
                  LET codes == SortedCodes(picked)
                  IN /\ rec_store' = rec_store \o
                           [k \in 1..Len(codes) |->
                               [stock_code |-> codes[k], recommendation_date |-> today]]
                     /\ counts' = [counts EXCEPT
                                      !.recommendations_generated = Len(codes)]
                     /\ stage_times' = stage_times \cup {"generate_recommendations"}
                     /\ pc' = "finish"
                     /\ step' = [NoStep EXCEPT !.stage = "generate_recommendations"]
                     /\ UNCHANGED <<errors, faults, pending_exc>>
    /\ UNCHANGED <<sidevars, open_sessions, config, settings, today, run_no, warnings, raw_data, validated_data,
                   transformed_data, batch_i, loaded_count, session_pending, results,
                   aborted, stock_store, price_store, indicator_store, alert_store,
                   rule_store, evals>>

\* ------------------------------------------ stand-alone evaluator calls
\* evaluator.evaluate_all_rules(evaluation_date=today) by a caller outside
\* the pipeline (the result is returned, nothing is saved)
Evaluate ==
    /\ pc = "idle"
    /\ Len(evals) < MaxEvals
    /\ \E F \in SUBSET (1..Len(RulePairs)) :
          /\ faults + Cardinality(F) <= MaxFaults
          /\ faults' = faults + Cardinality(F)
          /\ LET r == evaluate_all_rules(today, F)
             IN /\ evals' = Append(evals,
                                [date |-> today,
                                 alerts_generated |-> r.alerts_generated,
                                 prices |-> price_store,
                                 indicators |-> indicator_store])
                /\ step' = [NoStep EXCEPT !.stage = "evaluate_all_rules",
                                          !.raised = (F # {}),
                                          !.checked = Range(RulePairs),
                                          !.failed_pairs = {RulePairs[k] : k \in F},
                                          !.result = r]
    /\ UNCHANGED <<sidevars, open_sessions, config, settings, pc, today, run_no, runvars,
                   storevars, rule_store>>

\* ------------------------------------- alert evaluations side by side
\* _evaluate_alerts of evaluator e, first part: AlertEvaluator() and
\* evaluate_all_rules on its own session, which sees the committed alerts
overlap_evaluate(e) ==
    /\ pc = "idle"
    /\ evaluators[e].state = "new"
    /\ evaluators' = [evaluators EXCEPT
                         ![e] = [state |-> "evaluated",
                                 alerts |-> evaluate_all_rules(today, {}).alerts]]
    /\ step' = NoStep
    /\ UNCHANGED <<fetched, held, shared, retry, delisted, calc, pipevars>>

\* _evaluate_alerts of evaluator e, second part: `if result.alerts:
\* save_alerts(result.alerts)` (create_alert for each, then commit), close
overlap_save(e) ==
    /\ pc = "idle"
    /\ evaluators[e].state = "evaluated"
    /\ alert_store' = IF evaluators[e].alerts # <<>>
                      THEN alert_store \o save_alerts(evaluators[e].alerts, {}).pending
                      ELSE alert_store
    /\ evaluators' = [evaluators EXCEPT ![e].state = "saved"]
    /\ step' = NoStep
    /\ UNCHANGED <<fetched, held, shared, retry, delisted, calc, open_sessions, config, settings,
                   pc, today, run_no, runvars, stock_store, price_store, indicator_store,
                   rec_store, rule_store, faults, evals>>

\* AlertRepository.activate_rule / deactivate_rule (the rule exists)
activate_rule(rid) ==
    /\ pc = "idle"
    /\ ~RuleById(rid).is_active
    /\ rule_store' = (rule_store \ {RuleById(rid)})
                        \cup {[RuleById(rid) EXCEPT !.is_active = TRUE]}
    /\ step' = NoStep
    /\ UNCHANGED <<sidevars, open_sessions, config, settings, pc, today, run_no, runvars,
                   storevars, faults, evals>>

deactivate_rule(rid) ==
    /\ pc = "idle"
    /\ RuleById(rid).is_active
    /\ rule_store' = (rule_store \ {RuleById(rid)})
                        \cup {[RuleById(rid) EXCEPT !.is_active = FALSE]}
    /\ step' = NoStep
    /\ UNCHANGED <<sidevars, open_sessions, config, settings, pc, today, run_no, runvars,
                   storevars, faults, evals>>

\* StockRepository.delist_stock (the stock exists): is_active = False
delist_stock(code) ==
    /\ pc = "idle"
    /\ code \in stock_store \ delisted
    /\ delisted' = delisted \cup {code}
    /\ step' = NoStep
    /\ UNCHANGED <<evaluators, fetched, held, shared, retry, calc, open_sessions, config, settings, pc, today,
                   run_no, runvars, storevars, rule_store, faults, evals>>

\* ------------------------------------------------ @retry (utils/decorators)
\* what one call of the decorated fetch does: returns a frame or raises
FuncOutcomes == {"ok", "DataFetchError", "DataParseError"}

\* wrapper: current_delay *= backoff
NextDelay_Constant(d) == d

NextDelay(d) == d * backoff

\* wrapper is called: current_delay = delay, last_exception = None, the
\* loop starts at attempt 1.  outcomes: what the calls of func will do.
wrapper_call ==
    /\ retry.state \in {"none", "returned", "raised"}
    /\ \E o \in [1..MaxCalls -> FuncOutcomes] :
          retry' = [NoRetry EXCEPT !.state = "loop", !.attempt = 1,
                                   !.current_delay = delay, !.outcomes = o]
    /\ UNCHANGED <<evaluators, fetched, held, shared, delisted, calc, pipevars>>

\* one iteration of `for attempt in range(1, max_attempts + 1)`
wrapper_attempt ==
    /\ retry.state = "loop"
    /\ retry.attempt <= max_attempts
    /\ retry.calls < MaxCalls
    /\ LET n == retry.calls + 1
           out == retry.outcomes[n]
       IN IF out = "ok"
          THEN retry' = [retry EXCEPT !.calls = n, !.result = n, !.state = "returned"]
          ELSE IF retry.attempt < max_attempts
               THEN retry' = [retry EXCEPT
                                 !.calls = n,
                                 !.last_exception = out,
                                 !.slept = Append(@, retry.current_delay),
                                 !.current_delay = NextDelay(@),
                                 !.attempt = @ + 1]
               ELSE retry' = [retry EXCEPT !.calls = n, !.last_exception = out,
                                           !.attempt = @ + 1]
    /\ UNCHANGED <<evaluators, fetched, held, shared, delisted, calc, pipevars>>

\* "All retries exhausted": raise last_exception
wrapper_exhausted ==
    /\ retry.state = "loop"
    /\ retry.attempt > max_attempts
    /\ retry' = [retry EXCEPT !.state = "raised"]
    /\ UNCHANGED <<evaluators, fetched, held, shared, delisted, calc, pipevars>>

\* ------------------------------------------------- IndicatorCalculator
\* Prices are whole numbers; a mean is kept as the fraction sum / count, and
\* fractions are compared exactly (the float comparison of two such means
\* gives the same answer: the sums are exact and distinct means differ by
\* far more than the rounding of one division).
Max(a, b) == IF a > b THEN a ELSE b

RECURSIVE SumRange(_, _, _)
SumRange(p, a, b) == IF a > b THEN 0 ELSE p[b] + SumRange(p, a, b - 1)

\* series.rolling(window=w, min_periods=1).mean() at row i (rows from 1)
RollingMean(p, w, i) ==
    [sum |-> SumRange(p, Max(1, i - w + 1), i), count |-> Min(i, w)]

Less(x, y) == x.sum * y.count < y.sum * x.count
LessEq(x, y) == x.sum * y.count <= y.sum * x.count

\* _calculate_moving_averages: one column for a window
_calculate_moving_averages(p, w) == [i \in 1..Len(p) |-> RollingMean(p, w, i)]

\* delta = close_price.diff(): undefined at the first row
Delta(p, i) == p[i] - p[i - 1]

\* delta.where(delta > 0, 0) and -delta.where(delta < 0, 0): the undefined
\* delta of the first row fails both comparisons and becomes 0
Gains(p) == [i \in 1..Len(p) |-> IF i > 1 /\ Delta(p, i) > 0 THEN Delta(p, i) ELSE 0]
Losses(p) == [i \in 1..Len(p) |-> IF i > 1 /\ Delta(p, i) < 0 THEN -Delta(p, i) ELSE 0]

\* _calculate_rsi at row i: rs = gain / loss.replace(0, nan),
\* rsi = 100 - 100 / (1 + rs) = 100 * gain / (gain + loss), and
\* fillna(50) where the average loss is 0.  The value is num / den.
RsiAt(p, w, i) ==
    LET gain == RollingMean(Gains(p), w, i)
        loss == RollingMean(Losses(p), w, i)
    IN IF loss.sum = 0
       THEN [num |-> NeutralRsi, den |-> 1]
       ELSE [num |-> 100 * gain.sum, den |-> gain.sum + loss.sum]

_calculate_rsi(p, w) == [i \in 1..Len(p) |-> RsiAt(p, w, i)]

\* _detect_ma_crossovers: the loop starts at the second row
_detect_ma_crossovers(short, long) ==
    [i \in 1..Len(short) |->
        IF i = 1 THEN "None"
        ELSE IF LessEq(short[i - 1], long[i - 1]) /\ Less(long[i], short[i])
             THEN "BULLISH"
        ELSE IF LessEq(long[i - 1], short[i - 1]) /\ Less(short[i], long[i])
             THEN "BEARISH"
        ELSE "None"]

\* A column that is not followed as a number holds "None" (NaN turned into
\* None by _to_float), "0" (the number 0.0) or "positive".
\* rows of the window of row i at which the daily return is defined
\* (pct_change: not at the first row)
ReturnRows(w, i) == Max(2, i - w + 1)..i

\* rolling(...).std(): the sample standard deviation needs two values
StdOfReturns(p, w, i) ==
    LET rows == ReturnRows(w, i)
    IN IF Cardinality(rows) < 2 THEN "None"
       ELSE IF \A j, k \in rows : p[j] * p[k - 1] = p[k] * p[j - 1] THEN "0"
       ELSE "positive"

\* _calculate_volatility ... .fillna(0)
fillna(v) == IF v = "None" THEN "0" ELSE v

_calculate_volatility(p, w) == [i \in 1..Len(p) |-> fillna(StdOfReturns(p, w, i))]

\* _calculate_bollinger_bands: bb_upper = bb_middle + 2 * rolling std of
\* the prices, undefined at the first row
_calculate_bollinger_bands(p, w) ==
    [i \in 1..Len(p) |-> IF Min(i, w) < 2 THEN "None" ELSE "positive"]

\* test_ma_crossovers: IndicatorCalculator(ma_short=5, ma_long=10) on 15
\* falling samples (100 - i), then 15 rising ones (85 + 2 * (i - 15))
CrossoverPrices ==
    [k \in 1..30 |-> IF k - 1 < 15 THEN 100 - (k - 1) ELSE 85 + ((k - 1) - 15) * 2]

CrossoverInput ==
    [prices |-> CrossoverPrices, ma_short |-> 5, ma_long |-> 10,
     rsi_period |-> RSI_PERIOD, bollinger_period |-> BOLLINGER_PERIOD,
     volatility_period |-> VOLATILITY_PERIOD]

\* test_rsi: IndicatorCalculator(rsi_period=14) on 20 samples of an uptrend,
\* base_price + i * 2
UptrendPrices == [k \in 1..20 |-> 100 + (k - 1) * 2]

UptrendInput ==
    [prices |-> UptrendPrices, ma_short |-> MA_SHORT_PERIOD,
     ma_long |-> MA_LONG_PERIOD, rsi_period |-> RSI_PERIOD,
     bollinger_period |-> BOLLINGER_PERIOD, volatility_period |-> VOLATILITY_PERIOD]

\* calculators with short windows, for the generated series
SmallWindows ==
    { [ma_short |-> 1, ma_long |-> 2, rsi_period |-> 2,
       bollinger_period |-> 2, volatility_period |-> 2],
      [ma_short |-> 2, ma_long |-> 3, rsi_period |-> 3,
       bollinger_period |-> 3, volatility_period |-> 3] }

CalcInputs ==
    {[prices |-> p, ma_short |-> w.ma_short, ma_long |-> w.ma_long,
      rsi_period |-> w.rsi_period, bollinger_period |-> w.bollinger_period,
      volatility_period |-> w.volatility_period] :
         p \in SeqsUpTo(1..MaxPrice, MaxLen), w \in SmallWindows}
      \cup {CrossoverInput, UptrendInput}

\* calculate_all: moving averages, RSI, then the crossovers
calculate_all ==
    /\ calc.state = "input"
    /\ LET x == calc.input
           short == _calculate_moving_averages(x.prices, x.ma_short)
           long == _calculate_moving_averages(x.prices, x.ma_long)
       IN calc' = [calc EXCEPT
                     !.state = "done",
                     !.output = [ma_short |-> short,
                                 ma_long |-> long,
                                 rsi |-> _calculate_rsi(x.prices, x.rsi_period),
                                 bb_upper |->
                                     _calculate_bollinger_bands(x.prices, x.bollinger_period),
                                 volatility |->
                                     _calculate_volatility(x.prices, x.volatility_period),
                                 ma_crossover_signal |->
                                     _detect_ma_crossovers(short, long)]]
    /\ UNCHANGED <<evaluators, fetched, held, shared, retry, delisted, pipevars>>

\* ------------------------------------------- _check_volume_spike
\* PriceRepository.get_price_history: ordered by price_date descending
\* (v: the volumes of the window by ascending date, today's last)
get_price_history(v) == [k \in 1..Len(v) |-> v[Len(v) + 1 - k]]

VolumeChoices == {1, 3}

\* _check_volume_spike: fewer than MinVolumeRows rows: None; latest =
\* prices[-1]; average of prices[:-1]; fires when latest.volume >=
\* avg_volume * multiplier
_check_volume_spike(v, multiplier) ==
    LET prices == get_price_history(v)
        n == Len(prices)
    IN IF n < MinVolumeRows THEN FALSE
       ELSE LET latest == prices[n]
                historical_volumes == SubSeq(prices, 1, n - 1)
            IN latest * Len(historical_volumes)
                  >= SumRange(historical_volumes, 1, Len(historical_volumes)) * multiplier

\* one (rule, stock) check of a VOLUME_SPIKE rule with the default multiplier
check_volume_spike ==
    /\ calc.state = "volumes"
    /\ calc' = [calc EXCEPT !.state = "checked",
                            !.output = [fired |->
                                _check_volume_spike(calc.input, DefaultMultiplier)]]
    /\ UNCHANGED <<evaluators, fetched, held, shared, retry, delisted, pipevars>>

\* ---------------------------------------- _calculate_price_targets
SignalTypes == {"STRONG_BUY", "BUY", "HOLD", "SELL", "STRONG_SELL"}

\* _calculate_price_targets: (target_price, stop_loss) in hundredths of the
\* price unit, the multipliers being hundredths (1.15 is 115); (None,
\* None) for any other signal
_calculate_price_targets(current_price, signal_type) ==
    IF signal_type \in {"BUY", "STRONG_BUY"}
    THEN LET target_multiplier == IF signal_type = "STRONG_BUY" THEN 115 ELSE 110
             stop_loss_multiplier == IF signal_type = "STRONG_BUY" THEN 93 ELSE 95
         IN [target_price |-> <<current_price * target_multiplier>>,
             stop_loss |-> <<current_price * stop_loss_multiplier>>]
    ELSE IF signal_type \in {"SELL", "STRONG_SELL"}
    THEN LET target_multiplier == IF signal_type = "STRONG_SELL" THEN 85 ELSE 90
             stop_loss_multiplier == IF signal_type = "STRONG_SELL" THEN 105 ELSE 103
         IN [target_price |-> <<current_price * target_multiplier>>,
             stop_loss |-> <<current_price * stop_loss_multiplier>>]
    ELSE [target_price |-> <<>>, stop_loss |-> <<>>]

\* one call of the screener's price-target calculation
calculate_price_targets ==
    /\ calc.state = "price"
    /\ calc' = [calc EXCEPT !.state = "targets",
                            !.output = _calculate_price_targets(
                                           calc.input.current_price,
                                           calc.input.signal_type)]
    /\ UNCHANGED <<evaluators, fetched, held, shared, retry, delisted, pipevars>>

\* the caller keeps the PipelineResult run() returned: its errors, warnings
\* and stage_times are the orchestrator's own objects (_build_result)
Keep ==
    /\ pc = "idle"
    /\ results # <<>>
    /\ held # results
    /\ held' = results
    /\ shared' = TRUE
    /\ step' = NoStep
    /\ UNCHANGED <<evaluators, fetched, retry, delisted, calc, open_sessions, config, settings, pc, today,
                   run_no, runvars, storevars, rule_store, faults, evals>>

\* what the caller reads from the result it keeps
HeldNow ==
    IF held # <<>> /\ shared
    THEN <<[held[1] EXCEPT !.errors = errors, !.warnings = warnings,
                           !.stage_times = stage_times]>>
    ELSE held

\* ------------------------------------------------ run(): the two ways out
\* "Pipeline successful": success = len(self.errors) == 0
RunFinish ==
    /\ pc = "finish"
    /\ results' = Append(results,
           _build_result(errors = <<>>, counts, errors, warnings, stage_times))
    /\ pc' = "idle"
    /\ step' = NoStep
    /\ UNCHANGED <<sidevars, open_sessions, config, settings, today, run_no, errors, warnings, stage_times,
                   raw_data, validated_data, transformed_data, counts, batch_i,
                   loaded_count, session_pending, pending_exc, trace, aborted, storevars, rule_store,
                   faults, evals>>

\* run(): `except Exception as e` around all the stages
RunExcept ==
    /\ pc = "except"
    /\ IF Catches(RunHandler, pending_exc)
       THEN LET e == Append(errors, "Pipeline failure")
            IN /\ errors' = e
               /\ results' = Append(results, AbortResult(e, warnings, stage_times))
               /\ pc' = "idle"
       ELSE /\ pc' = "raised"
            /\ UNCHANGED <<errors, results>>
    /\ pending_exc' = "none"
    /\ step' = NoStep
    /\ UNCHANGED <<sidevars, open_sessions, config, settings, today, run_no, warnings, stage_times,
                   raw_data, validated_data, transformed_data, counts, batch_i,
                   loaded_count, session_pending, trace, aborted, storevars, rule_store,
                   faults, evals>>

Next ==
    \/ RunStart
    \/ NextDay
    \/ Stage1_Fetch
    \/ Stage2_Validate
    \/ Stage3_Transform
    \/ Stage4_LoadStocks
    \/ Stage5_LoadPrices
    \/ Stage6_Indicators
    \/ Stage7_Alerts
    \/ Stage8_Recommendations
    \/ RunFinish
    \/ RunExcept

Spec == Init /\ [][Next]_vars
\* ------------------------------------------------- other specifications
\* the default PipelineConfig with each choice of notification channels
DefaultConfig == [f \in Flags |-> TRUE]

InitNotify ==
    /\ config = DefaultConfig
    /\ settings \in [email_enabled : BOOLEAN, slack_enabled : BOOLEAN]
    /\ InitCommon

SpecNotify == InitNotify /\ [][Next]_vars

\* the pipeline with or without its alert stage, and callers that use the
\* evaluator directly
InitEval ==
    /\ config \in {c \in [Flags -> BOOLEAN] :
                      \A f \in Flags \ {"evaluate_alerts"} : c[f]}
    /\ settings = [email_enabled |-> FALSE, slack_enabled |-> FALSE]
    /\ InitCommon

NextEval == Next \/ Evaluate

SpecEval == InitEval /\ [][NextEval]_vars

\* one orchestrator (default configuration) whose caller keeps results
InitHold ==
    /\ config = DefaultConfig
    /\ settings = [email_enabled |-> FALSE, slack_enabled |-> FALSE]
    /\ InitCommon

NextHold == Next \/ Keep

SpecHold == InitHold /\ [][NextHold]_vars

\* calls of the decorated NGXDataSource.fetch
NextRetry == wrapper_call \/ wrapper_attempt \/ wrapper_exhausted

SpecRetry == InitHold /\ [][NextRetry]_vars

\* the indicator calculator applied to one price series
InitCalc ==
    /\ config = DefaultConfig
    /\ settings = [email_enabled |-> FALSE, slack_enabled |-> FALSE]
    /\ InitBase
    /\ fetched = NoFetched
    /\ calc \in {[state |-> "input", input |-> x, output |-> <<>>] : x \in CalcInputs}

NextCalc == calculate_all

SpecCalc == InitCalc /\ [][NextCalc]_vars

\* the default PipelineConfig, the inputs of the runs remembered
InitRerun ==
    /\ config = DefaultConfig
    /\ settings = [email_enabled |-> FALSE, slack_enabled |-> FALSE]
    /\ InitBase
    /\ fetched = KeepFetched
    /\ calc = NoCalc

SpecRerun == InitRerun /\ [][Next]_vars

\* a VOLUME_SPIKE check over the volumes of one stock
InitVolume ==
    /\ config = DefaultConfig
    /\ settings = [email_enabled |-> FALSE, slack_enabled |-> FALSE]
    /\ InitBase
    /\ fetched = NoFetched
    /\ calc \in {[state |-> "volumes", input |-> v, output |-> <<>>] :
                    v \in SeqsUpTo(VolumeChoices, MaxVolumes)}

NextVolume == check_volume_spike

SpecVolume == InitVolume /\ [][NextVolume]_vars

\* the price targets of one scored stock
InitTargets ==
    /\ config = DefaultConfig
    /\ settings = [email_enabled |-> FALSE, slack_enabled |-> FALSE]
    /\ InitBase
    /\ fetched = NoFetched
    /\ calc \in {[state |-> "price",
                   input |-> [current_price |-> p, signal_type |-> t],
                   output |-> <<>>] : p \in 1..MaxCurrentPrice, t \in SignalTypes}

NextTargets == calculate_price_targets

SpecTargets == InitTargets /\ [][NextTargets]_vars

\* the evaluator over a database that holds both symbols, each with one
\* price of the day, while rules are switched on and off and stocks delisted
MovementChoices == {3, 6}

InitPopulated ==
    /\ config = DefaultConfig
    /\ settings = [email_enabled |-> FALSE, slack_enabled |-> FALSE]
    /\ pc = "idle"
    /\ today = 1
    /\ run_no = 0
    /\ errors = <<>>
    /\ warnings = <<>>
    /\ stage_times = {}
    /\ raw_data = <<>>
    /\ validated_data = <<>>
    /\ transformed_data = <<>>
    /\ counts = ZeroCounts
    /\ batch_i = 0
    /\ loaded_count = 0
    /\ session_pending = {}
    /\ pending_exc = "none"
    /\ results = <<>>
    /\ stock_store = Symbols
    /\ \E m \in [Symbols -> MovementChoices] :
          price_store = {[stock_code |-> c, price_date |-> 1, change_1d_pct |-> m[c]] :
                           c \in Symbols}
    /\ indicator_store = {}
    /\ alert_store = <<>>
    /\ rec_store = <<>>
    /\ rule_store = InitialRules
    /\ faults = 0
    /\ trace = <<>>
    /\ aborted = "none"
    /\ step = NoStep
    /\ evals = <<>>
    /\ open_sessions = {}
    /\ held = <<>>
    /\ shared = FALSE
    /\ retry = NoRetry
    /\ calc = NoCalc
    /\ delisted = {}

InitRules ==
    /\ InitPopulated
    /\ fetched = NoFetched
    /\ evaluators = NoEvaluators

\* alert evaluations for the same date started side by side
InitOverlap ==
    /\ InitPopulated
    /\ fetched = NoFetched
    /\ evaluators = [e \in 1..MaxEvaluators |-> [state |-> "new", alerts |-> <<>>]]

NextOverlap ==
    \/ \E e \in 1..MaxEvaluators : overlap_evaluate(e)
    \/ \E e \in 1..MaxEvaluators : overlap_save(e)
    \/ \E rid \in {r.rule_id : r \in rule_store} : activate_rule(rid)
    \/ \E rid \in {r.rule_id : r \in rule_store} : deactivate_rule(rid)

SpecOverlap == InitOverlap /\ [][NextOverlap]_vars

NextRules ==
    \/ Evaluate
    \/ \E rid \in {r.rule_id : r \in rule_store} : activate_rule(rid)
    \/ \E rid \in {r.rule_id : r \in rule_store} : deactivate_rule(rid)
    \/ \E code \in Symbols : delist_stock(code)

SpecRules == InitRules /\ [][NextRules]_vars

\* a new orchestrator (default configuration) over the database two earlier
\* daily runs have left: both symbols, their prices and indicators of the
\* day before and of the day, no alerts and no recommendations yet
LoadedDatabase ==
    /\ stock_store = Symbols
    /\ price_store = {[stock_code |-> c, price_date |-> d,
                       change_1d_pct |-> ChangeOf(c)] : c \in Symbols, d \in 0..1}
    /\ indicator_store = {[stock_code |-> c, calculation_date |-> d] :
                            c \in Symbols, d \in 0..1}
    /\ alert_store = <<>>
    /\ rec_store = <<>>
    /\ today = 1

InitLoaded ==
    /\ config = DefaultConfig
    /\ settings = [email_enabled |-> FALSE, slack_enabled |-> FALSE]
    /\ LoadedDatabase
    /\ pc = "idle"
    /\ run_no = 0
    /\ errors = <<>>
    /\ warnings = <<>>
    /\ stage_times = {}
    /\ raw_data = <<>>
    /\ validated_data = <<>>
    /\ transformed_data = <<>>
    /\ counts = ZeroCounts
    /\ batch_i = 0
    /\ loaded_count = 0
    /\ session_pending = {}
    /\ pending_exc = "none"
    /\ results = <<>>
    /\ rule_store = InitialRules
    /\ faults = 0
    /\ trace = <<>>
    /\ aborted = "none"
    /\ step = NoStep
    /\ evals = <<>>
    /\ open_sessions = {}
    /\ held = <<>>
    /\ shared = FALSE
    /\ retry = NoRetry
    /\ calc = NoCalc
    /\ delisted = {}
    /\ fetched = NoFetched
    /\ evaluators = NoEvaluators

SpecLoaded == InitLoaded /\ [][Next]_vars

\* ------------------------------------------------------------ properties
Returned == pc = "idle" /\ Len(results) = 1

\* C1: the returned result has success = true iff its errors list is
\* empty, on every path of run() (early aborts included)
C1_SuccessIffNoErrors ==
    \A i \in 1..Len(results) : results[i].success <=> (results[i].errors = <<>>)

\* C2: a run that aborts early (nothing fetched, or nothing left by the
\* validation) returns success = false and a non-empty errors list
C2_AbortHasErrors ==
    (aborted # "none" /\ Returned) =>
        (~results[1].success /\ results[1].errors # <<>>)

AfterStage1 == {"stage2", "stage3", "stage4", "stage5", "stage6", "stage7",
                "stage8", "finish"}
AfterStage2 == AfterStage1 \ {"stage2"}

\* C4: when a requested fetch returns no rows, or the validation leaves no
\* rows, the run returns there with success = false and every count 0, and
\* no stage after fetch / validate has executed in it
C4_AbortStopsRun ==
    /\ (pc \in AfterStage1 /\ "fetch_data" \in Range(trace)) => raw_data # <<>>
    /\ (pc \in AfterStage2 /\ "validate_data" \in Range(trace)) => validated_data # <<>>
    /\ aborted # "none" =>
          /\ Returned
          /\ ~results[1].success
          /\ results[1].stocks_processed = 0
          /\ results[1].prices_loaded = 0
          /\ results[1].indicators_calculated = 0
          /\ results[1].alerts_generated = 0
          /\ results[1].recommendations_generated = 0
          /\ Range(trace) \subseteq {"fetch_data", "validate_data"}
          /\ aborted = "fetch" => trace = <<"fetch_data">>

\* the validation left nothing although every later stage was enabled
C4_Witness ==
    /\ aborted = "validate"
    /\ Returned
    /\ validated_data = <<>>
    /\ \A f \in Flags : config[f]
    /\ trace = <<"fetch_data", "validate_data">>

\* C5: an exception raised inside a stage (and not a fatal condition) is
\* caught inside the stage and recorded in errors or warnings, and the run
\* goes on with the following stages
C5_StageExceptionsContained ==
    [][(step'.raised /\ ~step'.fatal) =>
          /\ pc' \notin {"except", "raised", "idle"}
          /\ (Len(errors') > Len(errors) \/ Len(warnings') > Len(warnings))]_vars

NotifyMessages == {"Notification setup error", "Notification failed for alert",
                   "Notification exception for alert", "Daily digest failed",
                   "Daily digest exception", "Notification system error"}

\* C6: a notification failure adds warnings only: errors (hence success)
\* are untouched and the run goes on with the stage after alert evaluation
C6_NotificationFailuresOnlyWarn ==
    /\ [][step'.notify_failures > 0 =>
             /\ errors' = errors
             /\ Len(warnings') = Len(warnings) + step'.notify_failures
             /\ pc' = "stage8"]_vars
    /\ [](\A i \in 1..Len(results) : Range(results[i].errors) \cap NotifyMessages = {})

\* a run that succeeded although a notification failed
C6_Witness ==
    /\ Returned
    /\ results[1].success
    /\ Range(results[1].warnings) \cap NotifyMessages # {}
    /\ "generate_recommendations" \in Range(trace)

SameData(e1, e2) ==
    e1.date = e2.date /\ e1.prices = e2.prices /\ e1.indicators = e2.indicators

C8_OneAlertPerKey ==
    \A i, j \in 1..Len(alert_store) :
        (/\ alert_store[i].stock_code = alert_store[j].stock_code
         /\ alert_store[i].rule_id = alert_store[j].rule_id
         /\ alert_store[i].alert_date = alert_store[j].alert_date) => i = j

\* the alert stage of a repeated run for a day whose alerts are stored:
\* its evaluation met them and generated nothing
C8_Witness ==
    /\ run_no = 2
    /\ step.stage = "evaluate_alerts"
    /\ ~step.raised
    /\ counts.alerts_generated = 0
    /\ \E i \in 1..Len(alert_store) : alert_store[i].alert_date = today
    /\ \E p \in price_store : p.price_date = today /\ Abs(p.change_1d_pct) >= DefaultThreshold

\* C9: when persisting batch k fails, the rows of the batches 1..k-1 stay
\* committed in the price store
C9_EarlierBatchesStay ==
    [][step'.failed_batch > 0 =>
          /\ price_store \subseteq price_store'
          /\ \A i \in 1..batch_i :
                transformed_data[i].stock_code \in stock_store =>
                    PriceRecord(transformed_data[i], today) \in price_store']_vars

\* the second batch failed after the first one was inserted by this run
C9_Witness ==
    /\ step.failed_batch = 2
    /\ batch_i = BatchSize
    /\ loaded_count = BatchSize
    /\ PriceRecord(transformed_data[1], today) \in price_store

StageIndex(name) == CHOOSE k \in 1..Len(StageNames) : StageNames[k] = name

\* the flag(s) that enable a stage
StageEnabled(name) ==
    CASE name = "fetch_data" -> config.fetch_ngx \/ config.fetch_yahoo
      [] name = "validate_data" -> config.validate_data
      [] name = "transform_data" -> TRUE
      [] name = "load_stocks" -> config.load_stocks
      [] name = "load_prices" -> config.load_prices
      [] name = "calculate_indicators" -> config.calculate_indicators
      [] name = "evaluate_alerts" -> config.evaluate_alerts
      [] name = "generate_recommendations" -> config.generate_recommendations

\* C10: the stages of a run execute in the fixed order, each at most once,
\* one after the other has finished, and never when disabled by its flag
C10_StageOrder ==
    /\ [](\A i, j \in 1..Len(trace) :
              i < j => StageIndex(trace[i]) < StageIndex(trace[j]))
    /\ [](\A i \in 1..Len(trace) : StageEnabled(trace[i]))
    /\ [][(trace' # trace /\ trace' # <<>>) =>
             /\ Len(trace') = Len(trace) + 1
             /\ SubSeq(trace', 1, Len(trace)) = trace
             /\ ~(pc = "stage5" /\ batch_i > 0)]_vars

\* a run that executed all eight stages
C10_Witness ==
    /\ Returned
    /\ trace = StageNames

\* C11: every session a stage opens is closed before the stage returns,
\* on the normal and on the exception path: no session of a stage is open
\* when the next stage starts
C11_SessionsReleased ==
    open_sessions \subseteq
        (IF pc = "stage5" /\ batch_i > 0 THEN {SessionOf("load_prices")} ELSE {})

\* C12: when loading one stock row or calculating one symbol's indicators
\* fails, the failure is a warning, and what the stage did for the other
\* rows and symbols is in the store when the stage returns
C12_OtherRowsKept ==
    [][/\ (step'.stage = "load_stocks" /\ errors' = errors)
            => /\ Len(warnings') = Len(warnings) + Cardinality(step'.failed_rows)
               /\ \A c \in Range(UniqueCodes(transformed_data)) \ step'.failed_rows :
                      c \in stock_store'
       /\ (step'.stage = "calculate_indicators" /\ errors' = errors)
            => /\ Len(warnings') = Len(warnings) + Cardinality(step'.failed_rows)
               /\ \A c \in stock_store \ step'.failed_rows :
                      Cardinality(PriceDates(c, today)) >= MinHistory
                        => \A x \in PriceDates(c, today) :
                              [stock_code |-> c, calculation_date |-> x]
                                  \in indicator_store']_vars

\* the (rule, stock) key of an alert or of a pair
PairOf(a) == [rule_id |-> a.rule_id, stock_code |-> a.stock_code]

KeepAlerts(alerts, out) ==
    LET keep == SelectIdx(alerts, LAMBDA i : PairOf(alerts[i]) \notin out)
    IN [k \in 1..Len(keep) |-> alerts[keep[k]]]

\* C13: when the check of a (rule, symbol) pair raises, that pair gives no
\* alert, and the call returns exactly the alerts of the other pairs of
\* active rule and active symbol, as if the failing pairs were not there
C13_OtherPairsChecked ==
    [][step'.stage = "evaluate_all_rules"
         => /\ step'.result.alerts
                  = KeepAlerts(evaluate_all_rules(today, {}).alerts, step'.failed_pairs)
            /\ step'.result.alerts_generated = Len(step'.result.alerts)]_vars

\* a pair failed and a later pair of the same rule gave an alert
C13_Witness ==
    /\ step.stage = "evaluate_all_rules"
    /\ \E p \in step.failed_pairs :
         \E i \in 1..Len(step.result.alerts) :
            /\ step.result.alerts[i].rule_id = p.rule_id
            /\ p.stock_code = "S1"
            /\ step.result.alerts[i].stock_code = "S2"

\* C14: the pairs checked are exactly active rules x active symbols; a rule
\* that is not active is not checked, not counted in rules_evaluated and
\* gives no alert
C14_OnlyActiveRules ==
    [][step'.stage = "evaluate_all_rules"
         => LET active == {r.rule_id : r \in {x \in rule_store : x.is_active}}
                listed == {c \in stock_store : c \notin delisted}
            IN /\ step'.checked = [rule_id : active, stock_code : listed]
               /\ step'.result.rules_evaluated = Cardinality(active)
               /\ \A i \in 1..Len(step'.result.alerts) :
                     /\ step'.result.alerts[i].rule_id \in active
                     /\ step'.result.alerts[i].stock_code \in listed]_vars

\* a call while a rule that would fire is switched off and another fires
C14_Witness ==
    /\ step.stage = "evaluate_all_rules"
    /\ \E r \in rule_store :
          /\ ~r.is_active
          /\ r.rule_type = "PRICE_MOVEMENT"
          /\ \E c \in stock_store \ delisted : _check_price_movement(r, c)
    /\ step.result.alerts # <<>>
    /\ step.result.rules_evaluated > 0

C16_ResultsAreSeparate ==
    /\ HeldNow = held
    /\ Returned => results[1].stage_times \subseteq Range(trace)
    /\ (pc = "stage1" /\ run_no > 0) => errors = <<>> /\ warnings = <<>> /\ stage_times = {}

\* a second run has returned, with errors, while the caller keeps the first
\* run's result, which had none
C16_Witness ==
    /\ Returned
    /\ held # <<>>
    /\ held[1].run = 1
    /\ held[1].errors = <<>>
    /\ results[1].run = 2
    /\ results[1].errors # <<>>
    /\ held[1].stage_times # results[1].stage_times

RECURSIVE Pow(_, _)
Pow(b, e) == IF e = 0 THEN 1 ELSE b * Pow(b, e - 1)

\* C17: one fetch call makes at most max_attempts attempts; it returns the
\* result of the first attempt that succeeds and attempts no more; after
\* the n-th failed attempt it waits delay * backoff^(n-1) seconds before
\* the next one (2, then 4); when every attempt fails it raises the last
\* exception, without waiting again
C17_RetryAtMostThreeTimes ==
    /\ retry.calls <= max_attempts
    /\ \A n \in 1..Len(retry.slept) : retry.slept[n] = delay * Pow(backoff, n - 1)
    /\ retry.state = "loop" =>
          /\ retry.calls = retry.attempt - 1
          /\ Len(retry.slept) = Min(retry.calls, max_attempts - 1)
    /\ retry.state = "returned" =>
          /\ retry.outcomes[retry.calls] = "ok"
          /\ \A k \in 1..(retry.calls - 1) : retry.outcomes[k] # "ok"
          /\ retry.result = retry.calls
          /\ Len(retry.slept) = retry.calls - 1
    /\ retry.state = "raised" =>
          /\ retry.calls = max_attempts
          /\ \A k \in 1..max_attempts : retry.outcomes[k] # "ok"
          /\ retry.last_exception = retry.outcomes[max_attempts]
          /\ retry.slept = <<delay, delay * backoff>>

\* the third attempt succeeded after waits of 2 and 4 seconds, and the
\* function would have failed on a further call
C17_Witness ==
    /\ retry.state = "returned"
    /\ retry.calls = 3
    /\ retry.slept = <<2, 4>>
    /\ retry.outcomes[1] # retry.outcomes[2]
    /\ retry.outcomes[MaxCalls] # "ok"

\* the short average is at or below the long one before row c and above it
\* from row c on
CrossesOnceAt(out, c) ==
    /\ \A i \in 1..(c - 1) : LessEq(out.ma_short[i], out.ma_long[i])
    /\ \A i \in c..Len(out.ma_short) : Less(out.ma_long[i], out.ma_short[i])

Signals(out) == {i \in 1..Len(out.ma_crossover_signal) : out.ma_crossover_signal[i] # "None"}

\* C18: when the short average goes from at or below the long average to
\* above it once and stays above, the only signal is one BULLISH, at the
\* row of the crossing
C18_OneBullishAtCrossing ==
    calc.state = "done" =>
        \A c \in 2..Len(calc.input.prices) :
            CrossesOnceAt(calc.output, c)
                => /\ Signals(calc.output) = {c}
                   /\ calc.output.ma_crossover_signal[c] = "BULLISH"

\* C19: 15 falling then 15 rising samples with 5- and 10-sample averages
\* give exactly one signal, BULLISH, in the rising segment
C19_TestSeriesOneBullish ==
    (calc.state = "done" /\ calc.input = CrossoverInput) =>
        \E c \in 16..30 :
            /\ Signals(calc.output) = {c}
            /\ calc.output.ma_crossover_signal[c] = "BULLISH"

\* C20: at every row with a defined delta whose average loss over the
\* window is 0 the RSI is 100, and 20 strictly rising samples end with an
\* RSI above 50
C20_RsiWithoutLosses ==
    calc.state = "done" =>
        LET p == calc.input.prices
            w == calc.input.rsi_period
        IN /\ \A i \in 2..Len(p) :
                 RollingMean(Losses(p), w, i).sum = 0
                    => calc.output.rsi[i].num = 100 * calc.output.rsi[i].den
           /\ calc.input = UptrendInput
                 => calc.output.rsi[20].num > 50 * calc.output.rsi[20].den

\* C21: an indicator other than RSI is None at every row where what it is
\* computed from is undefined: the volatility where fewer than two returns
\* are in the window, the upper band where fewer than two prices are; no
\* 0 or other default stands in
C21_NoneWhenUndefined ==
    calc.state = "done" =>
        \A i \in 1..Len(calc.input.prices) :
            /\ Cardinality(ReturnRows(calc.input.volatility_period, i)) < 2
                  => calc.output.volatility[i] = "None"
            /\ i < 2 => calc.output.bb_upper[i] = "None"

C24_PriceTargets ==
    calc.state = "targets" =>
        LET P == calc.input.current_price
            t == calc.input.signal_type
            Is(target, stop) == /\ calc.output.target_price = <<target>>
                                /\ calc.output.stop_loss = <<stop>>
        IN /\ t = "STRONG_BUY" => Is(115 * P, 93 * P)
           /\ t = "BUY" => Is(110 * P, 95 * P)
           /\ t = "STRONG_SELL" => Is(85 * P, 107 * P)
           /\ t = "SELL" => Is(90 * P, 105 * P)

\* C25: in the result of every run, stage_times has an entry for exactly
\* the stages that executed, whether a stage finished normally or ended by
\* catching an exception
C25_StageTimesOfExecutedStages ==
    (/\ pc = "idle"
     /\ results # <<>>
     /\ results[Len(results)].run = run_no)
        => results[Len(results)].stage_times = Range(trace)

C27_RerunSucceeds ==
    (/\ Returned
     /\ Len(fetched.log) = 2
     /\ fetched.log[1] = fetched.log[2]
     /\ fetched.log[2].rows # <<>>
     /\ \A i \in 1..Len(fetched.log[2].rows) : fetched.log[2].rows[i].kind = "good"
     /\ faults = 0)
        => results[1].success

\* the price store half of C27: the steps of such a second run leave the
\* price store as it was
C27_RerunKeepsPrices ==
    [][(/\ Len(fetched.log) = 2
        /\ fetched.log[1] = fetched.log[2]
        /\ faults = 0
        /\ pc # "idle") => price_store' = price_store]_vars

\* C28: prices_loaded of the result equals the number of price rows the
\* run committed (here the first run, over an empty price table), also
\* when a later batch fails after earlier batches were committed
C28_PricesLoadedIsCommitted ==
    (Returned /\ run_no = 1) => results[1].prices_loaded = Cardinality(price_store)

C30_PartialRejectionSucceeds ==
    (/\ Returned
     /\ run_no = 1
     /\ faults = 0
     /\ "validate_data" \in Range(trace)
     /\ validated_data # <<>>
     /\ Len(validated_data) < Len(raw_data))
        => /\ "transform_data" \in Range(trace)
           /\ results[1].success

====
